---- MODULE Spec2Model ----
(***************************************************************************)
(* Model of lunr_mcp/server.py: the per-index load coordinator formed by   *)
(* the module-level dictionaries _cache and _loading, the coroutine        *)
(* fetch_search_index and the two generated handlers search_tool and       *)
(* get_page_tool, the pure ranking routine search_items, and the page      *)
(* lookup and page fetch of get_page_tool on a loaded index.               *)
(*                                                                         *)
(* Concurrency is asyncio's: one coroutine runs at a time and control      *)
(* changes hands only at an await.  Every action below is the code that    *)
(* runs between two suspension points.                                     *)
(***************************************************************************)
EXTENDS Integers, Sequences, FiniteSets, TLC

---------------------------------------------------------------------------
(* Bounds of the model *)

\* number of handler invocations (search_<key> / get_<key>_page calls)
NumCalls == 2
\* number of configured index URLs (entries of SITES)
NumUrls == 2
\* number of distinct index documents the remote site may serve
NumValues == 2

\* longest query handed to search_items, in words
MaxQueryWords == 11
\* most document records in an index handed to search_items
MaxDocs == 2
\* largest `limit` handed to search_items
MaxLimit == 2

\* wait_for(..., timeout=1.5), in ticks of half a time unit
WaitTicks == 3
\* `score = 100`: the exact-phrase score
ExactScore == 100
\* `... * 10`: the score of each matching query word
WordScore == 10

Calls == 1..NumCalls
Urls == 1..NumUrls
Values == 1..NumValues
TaskIds == 1..NumCalls
NoValue == 0
NoTask == 0
Kinds == {"search", "page"}

VARIABLES
  cache,    \* _cache: index URL -> cached index document (NoValue: key absent)
  loading,  \* _loading: index URL -> registered task (NoTask: key absent)
  tasks,    \* the asyncio tasks running fetch_search_index
  calls,    \* the handler invocations and where each one stands
  rank,     \* one run of search_items: its arguments and its return value
  page      \* one run of get_page_tool on a loaded index, from the page lookup on

vars == <<cache, loading, tasks, calls, rank, page>>

NoTaskRec == [st |-> "none", url |-> 0, val |-> NoValue, http |-> FALSE]
IdleCall == [pc |-> "idle", url |-> 0, task |-> NoTask,
             waited |-> 0, path |-> "none", res |-> "none", idx |-> NoValue]

NoRank == [pc |-> "none", index |-> [list |-> FALSE, items |-> <<>>],
           query |-> <<>>, limit |-> 0, base |-> <<>>, out |-> <<>>]

NoDoc == [t |-> <<>>, u |-> <<>>, b |-> <<>>]
NoContent == [kind |-> "none", title |-> <<>>, code |-> 0, err |-> ""]
NoOut == [kind |-> "none", error |-> <<>>, title |-> <<>>, url |-> <<>>,
          path |-> <<>>, content |-> NoContent]
NoLoc == [site |-> <<>>, path |-> <<>>, query |-> <<>>, frag |-> <<>>]
NoPage == [pc |-> "none", index |-> [list |-> FALSE, items |-> <<>>],
           b_url |-> <<>>, loc |-> NoLoc, location |-> <<>>,
           base_location |-> <<>>, found |-> FALSE, doc |-> NoDoc,
           gets |-> 0, out |-> NoOut]

Init ==
  /\ cache = [u \in Urls |-> NoValue]
  /\ loading = [u \in Urls |-> NoTask]
  /\ tasks = [t \in TaskIds |-> NoTaskRec]
  /\ calls = [c \in Calls |-> IdleCall]
  /\ rank = NoRank
  /\ page = NoPage

---------------------------------------------------------------------------
(* Helpers *)

\* the test looks in the registry of running loads instead of the cache
CachedInWrongDict(u) == loading[u] # NoTask

\* `idx_url in _cache`
Cached(u) == cache[u] # NoValue

\* `idx_url in _loading`
Registered(u) == loading[u] # NoTask

\* asyncio.create_task picks a fresh task object
FreshTask == CHOOSE t \in TaskIds : tasks[t].st = "none" /\
                 \A s \in TaskIds : tasks[s].st = "none" => t <= s

\* number of HTTP GETs issued for index URL u (the fetch counter)
FetchCount(u) == Cardinality({t \in TaskIds : tasks[t].url = u /\ tasks[t].http})

\* one timer per fetch, armed for its first waiter, instead of one per caller
DeadlinePerFetch(c) ==
  \E d \in Calls : /\ calls[d].pc = "wait" /\ calls[d].task = calls[c].task
                   /\ calls[d].waited >= WaitTicks

\* the timer of wait_for has expired for call c: it was armed when c began
\* to wait, not when the fetch began
Deadline(c) == calls[c].waited >= WaitTicks

\* wait_for on the bare task: the timeout cancels the task
NoShield(ts, t) == [ts EXCEPT ![t].st = "cancelled"]

\* asyncio.shield: cancelling the waiter leaves task t as it is
Shield(ts, t) == ts

\* the failure of the task is handled like the timeout (`except Exception:`)
WaitOutcomeFailureAsTimeout(c) ==
  LET t == calls[c].task IN
  IF tasks[t].st = "succeeded" THEN "value"
  ELSE IF tasks[t].st \in {"failed", "cancelled"} \/ Deadline(c) THEN "timeout"
  ELSE "pending"

\* what `await asyncio.wait_for(asyncio.shield(task), timeout=1.5)` does for
\* call c in the current state
WaitOutcome(c) ==
  LET t == calls[c].task IN
  IF tasks[t].st = "succeeded" THEN "value"
  ELSE IF tasks[t].st \in {"failed", "cancelled"} THEN "raise"
  ELSE IF Deadline(c) THEN "timeout"
  ELSE "pending"

\* create_task(fetch_search_index(idx_url)); _loading[idx_url] = task
CreateAndRegister(c, rec) ==
  LET t == FreshTask IN
  /\ tasks' = [tasks EXCEPT ![t] = [st |-> "created", url |-> rec.url,
                                    val |-> NoValue, http |-> FALSE]]
  /\ loading' = [loading EXCEPT ![rec.url] = t]
  /\ calls' = [calls EXCEPT ![c] = [rec EXCEPT !.pc = "wait", !.task = t,
                                               !.waited = 0, !.path = "loaded"]]
  /\ UNCHANGED <<cache, rank, page>>

\* The handler leaves the load coordinator with outcome `what`: "results"
\* with index document v in index_data (search_tool goes on to search_items
\* and returns; get_page_tool goes on to the page lookup, which touches
\* neither _cache nor _loading), the "loading" marker, or the "failure" of
\* the fetch.  Of such a call the model keeps the URL, the outcome, the
\* document, whether it found the cache filled, and the task it waited on.
Finished(rec, what, v) ==
  [pc |-> "done", url |-> rec.url, task |-> rec.task,
   waited |-> 0, path |-> rec.path, res |-> what, idx |-> v]

Return(c, what, v) ==
  calls' = [calls EXCEPT ![c] = Finished(calls[c], what, v)]

---------------------------------------------------------------------------
(* The handlers search_tool and get_page_tool *)

\* The host invokes search_<key> (k = "search") or get_<key>_page
\* (k = "page") for index URL u, with (x) or without a Context.  Up to the
\* test `if idx_url in _cache:` the handler reads no shared state (it logs
\* and, with a Context, awaits ctx.info), so a call enters the model at that
\* test.  Call slots are interchangeable and so are the configured sites:
\* slots are taken in order, and so are the sites at their first use.
Invoke(c, u, k, x) ==
  /\ calls[c].pc = "idle"
  /\ IF c = 1 THEN TRUE ELSE calls[c - 1].pc # "idle"
  /\ u \in Urls /\ k \in Kinds /\ x \in BOOLEAN
  /\ \A w \in 1..(u - 1) : \E d \in Calls : calls[d].url = w

Enter(c, u) == [calls[c] EXCEPT !.url = u]

\* `if idx_url in _cache:` taken.
\*   search_tool with ctx: suspends in `await ctx.debug(...)` and reads
\*     _cache after it;
\*   search_tool without ctx, get_page_tool: index_data = _cache[idx_url].
UseCached(c, u, k, x) ==
  /\ Invoke(c, u, k, x)
  /\ Cached(u)
  /\ calls' = [calls EXCEPT ![c] =
       IF k = "search" /\ x
         THEN [Enter(c, u) EXCEPT !.pc = "cached", !.path = "cached"]
         ELSE Finished([Enter(c, u) EXCEPT !.path = "cached"], "results", cache[u])]
  /\ UNCHANGED <<cache, loading, tasks, rank, page>>

\* search_tool with ctx, after `await ctx.debug(...)`:
\* index_data = _cache[idx_url]; search_items; return results
ReadCached(c) ==
  /\ calls[c].pc = "cached"
  /\ Return(c, "results", cache[calls[c].url])
  /\ UNCHANGED <<cache, loading, tasks, rank, page>>

\* not cached, `if idx_url in _loading:` taken: task = _loading[idx_url]
JoinLoading(c, u, k, x) ==
  /\ Invoke(c, u, k, x)
  /\ ~Cached(u)
  /\ Registered(u)
  /\ calls' = [calls EXCEPT ![c] =
       [Enter(c, u) EXCEPT !.pc = "wait", !.task = loading[u],
                                 !.waited = 0, !.path = "loaded"]]
  /\ UNCHANGED <<cache, loading, tasks, rank, page>>

\* not cached, not in _loading, no ctx: the task is created and registered
\* in the same step
StartLoading(c, u, k) ==
  /\ Invoke(c, u, k, FALSE)
  /\ ~Cached(u)
  /\ ~Registered(u)
  /\ CreateAndRegister(c, Enter(c, u))

\* not cached, not in _loading, with ctx: the handler suspends in
\* `await ctx.info("Loading search index ...")` before it creates the task
AnnounceLoading(c, u, k) ==
  /\ Invoke(c, u, k, TRUE)
  /\ ~Cached(u)
  /\ ~Registered(u)
  /\ calls' = [calls EXCEPT ![c] = [Enter(c, u) EXCEPT !.pc = "announce"]]
  /\ UNCHANGED <<cache, loading, tasks, rank, page>>

\* ... and resumes: create_task, _loading[idx_url] = task, with no new look
\* at _cache or _loading
RegisterAfterAnnounce(c) ==
  /\ calls[c].pc = "announce"
  /\ CreateAndRegister(c, calls[c])

\* the whole registry is emptied (`_loading.clear()`)
ObserveSuccessClearsRegistry(c) ==
  /\ calls[c].pc = "wait"
  /\ WaitOutcome(c) = "value"
  /\ loading' = [u \in Urls |-> NoTask]
  /\ Return(c, "results", tasks[calls[c].task].val)
  /\ UNCHANGED <<cache, tasks, rank, page>>

\* wait_for returns the task's value: `if idx_url in _loading: del ...`,
\* then search_items (search_tool) or the page lookup (get_page_tool)
ObserveSuccess(c) ==
  /\ calls[c].pc = "wait"
  /\ WaitOutcome(c) = "value"
  /\ loading' = [loading EXCEPT ![calls[c].url] = NoTask]
  /\ Return(c, "results", tasks[calls[c].task].val)
  /\ UNCHANGED <<cache, tasks, rank, page>>

\* wait_for re-raises the task's exception; only asyncio.TimeoutError is
\* caught, so the handler ends with that exception and _loading is not touched
ObserveFailure(c) ==
  /\ calls[c].pc = "wait"
  /\ WaitOutcome(c) = "raise"
  /\ Return(c, "failure", NoValue)
  /\ UNCHANGED <<cache, loading, tasks, rank, page>>

\* `except asyncio.TimeoutError:` the loading marker is returned
Timeout(c) ==
  /\ calls[c].pc = "wait"
  /\ WaitOutcome(c) = "timeout"
  /\ tasks' = Shield(tasks, calls[c].task)
  /\ Return(c, "loading", NoValue)
  /\ UNCHANGED <<cache, loading, rank, page>>

---------------------------------------------------------------------------
(* fetch_search_index, run as a task *)

\* first step of the task: `if index_url in _cache: return _cache[index_url]`,
\* else the GET is issued
TaskStart(t) ==
  /\ tasks[t].st = "created"
  /\ IF Cached(tasks[t].url)
       THEN tasks' = [tasks EXCEPT ![t].st = "succeeded",
                                   ![t].val = cache[tasks[t].url]]
       ELSE tasks' = [tasks EXCEPT ![t].st = "fetching", ![t].http = TRUE]
  /\ UNCHANGED <<cache, loading, calls, rank, page>>

\* the GET answers 2xx with JSON document v: _cache[index_url] = data.
\* Documents are interchangeable: they are numbered as they are first served.
FetchSucceed(t, v) ==
  /\ tasks[t].st = "fetching"
  /\ \A w \in 1..(v - 1) : \E s \in TaskIds : tasks[s].val = w
  /\ tasks' = [tasks EXCEPT ![t].st = "succeeded", ![t].val = v]
  /\ cache' = [cache EXCEPT ![tasks[t].url] = v]
  /\ UNCHANGED <<loading, calls, rank, page>>

\* transport error, raise_for_status() or response.json() raises
FetchFail(t) ==
  /\ tasks[t].st = "fetching"
  /\ tasks' = [tasks EXCEPT ![t].st = "failed"]
  /\ UNCHANGED <<cache, loading, calls, rank, page>>

---------------------------------------------------------------------------
(* Time *)

\* Half a time unit passes.  The event loop runs what is ready first: a new
\* task's first step, a waiter whose task is done, an expired timer.
Tick ==
  /\ \A t \in TaskIds : tasks[t].st # "created"
  /\ \A c \in Calls : calls[c].pc = "wait" => WaitOutcome(c) = "pending"
  /\ calls' = [c \in Calls |->
                 IF calls[c].pc = "wait"
                   THEN [calls[c] EXCEPT !.waited = @ + 1]
                   ELSE calls[c]]
  /\ \E c \in Calls : calls[c].pc = "wait"
  /\ UNCHANGED <<cache, loading, tasks, rank, page>>

---------------------------------------------------------------------------

Next ==
  \/ \E c \in Calls, u \in Urls, k \in Kinds, x \in BOOLEAN : UseCached(c, u, k, x)
  \/ \E c \in Calls : ReadCached(c)
  \/ \E c \in Calls, u \in Urls, k \in Kinds, x \in BOOLEAN : JoinLoading(c, u, k, x)
  \/ \E c \in Calls, u \in Urls, k \in Kinds : StartLoading(c, u, k)
  \/ \E c \in Calls, u \in Urls, k \in Kinds : AnnounceLoading(c, u, k)
  \/ \E c \in Calls : RegisterAfterAnnounce(c)
  \/ \E c \in Calls : ObserveSuccess(c)
  \/ \E c \in Calls : ObserveFailure(c)
  \/ \E c \in Calls : Timeout(c)
  \/ \E t \in TaskIds : TaskStart(t)
  \/ \E t \in TaskIds, v \in Values : FetchSucceed(t, v)
  \/ \E t \in TaskIds : FetchFail(t)
  \/ Tick

Spec == Init /\ [][Next]_vars

\* a step of the event loop: a ready callback is run, an expired timer
\* fires, or time passes
LoopStep ==
  \/ Tick
  \/ \E c \in Calls : Timeout(c) \/ ObserveSuccess(c) \/ ObserveFailure(c)
  \/ \E t \in TaskIds : TaskStart(t)

\* The event loop does not stop while it has something to run; neither the
\* host nor the remote server is under any obligation.
FairSpec == Spec /\ WF_vars(LoopStep)

---------------------------------------------------------------------------
(* search_items.  A string is the sequence of its code points. *)

Min(a, b) == IF a <= b THEN a ELSE b

\* str.lower(), on ASCII
Lower(s) == [i \in 1..Len(s) |-> IF s[i] \in 65..90 THEN s[i] + 32 ELSE s[i]]

\* `sub in s`
Contains(s, sub) ==
  \E i \in 0..(Len(s) - Len(sub)) : SubSeq(s, i + 1, i + Len(sub)) = sub

\* str.split(): the maximal runs of non-blank characters
RECURSIVE SplitFrom(_, _, _)
SplitFrom(s, i, cur) ==
  IF i > Len(s) THEN (IF cur = <<>> THEN <<>> ELSE <<cur>>)
  ELSE IF s[i] = 32
    THEN (IF cur = <<>> THEN <<>> ELSE <<cur>>) \o SplitFrom(s, i + 1, <<>>)
    ELSE SplitFrom(s, i + 1, Append(cur, s[i]))

Split(s) == SplitFrom(s, 1, <<>>)

\* " ".join(parts)
RECURSIVE JoinSpace(_)
JoinSpace(parts) ==
  IF parts = <<>> THEN <<>>
  ELSE IF Len(parts) = 1 THEN parts[1]
  ELSE parts[1] \o <<32>> \o JoinSpace(Tail(parts))

\* url.split("#")[0]
RECURSIVE BeforeHash(_)
BeforeHash(s) ==
  IF s = <<>> \/ s[1] = 35 THEN <<>> ELSE <<s[1]>> \o BeforeHash(Tail(s))

\* a < b on Python strings: code point by code point, a proper prefix first
RECURSIVE StrLess(_, _)
StrLess(a, b) ==
  IF b = <<>> THEN FALSE
  ELSE IF a = <<>> THEN TRUE
  ELSE IF a[1] # b[1] THEN a[1] < b[1]
  ELSE StrLess(Tail(a), Tail(b))

\* `query_lower in title or query_lower in path`
ExactMatch(title, path, query_lower) ==
  Contains(title, query_lower) \/ Contains(path, query_lower)

\* the positions of the query words found in the title or the path
WordHits(title, path, query_words) ==
  {i \in 1..Len(query_words) :
     Contains(title, query_words[i]) \/ Contains(path, query_words[i])}

\* the score the loop body gives doc; 0 stands for `continue`
ScoreOf(doc, query) ==
  LET query_lower == Lower(query)
      query_words == Split(query_lower)
      title == Lower(doc.t)
      path == Lower(JoinSpace(doc.b))
  IN IF ExactMatch(title, path, query_lower) THEN ExactScore
     ELSE IF WordHits(title, path, query_words) # {}
       THEN Cardinality(WordHits(title, path, query_words)) * WordScore
       ELSE 0

\* `indexes = index_data if isinstance(index_data, list) else [index_data]`
\* and the two nested loops: the document records in traversal order
RECURSIVE FlattenDocs(_)
FlattenDocs(indexes) ==
  IF indexes = <<>> THEN <<>>
  ELSE indexes[1].documents \o FlattenDocs(Tail(indexes))

\* a later record of a base path already seen replaces the kept one when it
\* scores higher
RECURSIVE CollectBestScore(_, _, _, _, _, _)
CollectBestScore(docs, i, query, base_url, results, seen_urls) ==
  IF i > Len(docs) THEN results
  ELSE LET doc == docs[i]
           score == ScoreOf(doc, query)
           base_url_path == BeforeHash(doc.u)
           r == [title |-> doc.t, url |-> base_url \o base_url_path,
                 path |-> doc.b, score |-> score]
       IN IF score = 0
            THEN CollectBestScore(docs, i + 1, query, base_url, results, seen_urls)
          ELSE IF base_url_path \in seen_urls
            THEN CollectBestScore(docs, i + 1, query, base_url,
                   [j \in 1..Len(results) |->
                      IF results[j].url = r.url /\ results[j].score < score
                        THEN r ELSE results[j]],
                   seen_urls)
            ELSE CollectBestScore(docs, i + 1, query, base_url,
                                  Append(results, r), seen_urls \cup {base_url_path})

\* the loop over the records: results and seen_urls after records i..
RECURSIVE Collect(_, _, _, _, _, _)
Collect(docs, i, query, base_url, results, seen_urls) ==
  IF i > Len(docs) THEN results
  ELSE LET doc == docs[i]
           score == ScoreOf(doc, query)
           base_url_path == BeforeHash(doc.u)
       IN IF score = 0 \/ base_url_path \in seen_urls
            THEN Collect(docs, i + 1, query, base_url, results, seen_urls)
            ELSE Collect(docs, i + 1, query, base_url,
                         Append(results, [title |-> doc.t,
                                          url |-> base_url \o base_url_path,
                                          path |-> doc.b,
                                          score |-> score]),
                         seen_urls \cup {base_url_path})

\* the titles are compared in lowercase
KeyLessLowercase(x, y) ==
  \/ x.score > y.score
  \/ x.score = y.score /\ StrLess(Lower(x.title), Lower(y.title))

\* the sort key (-x["_score"], x["title"]): x sorts strictly before y
KeyLess(x, y) ==
  \/ x.score > y.score
  \/ x.score = y.score /\ StrLess(x.title, y.title)

\* list.sort is stable: r goes before the first element that sorts
\* strictly after it
RECURSIVE InsertSorted(_, _)
InsertSorted(sorted, r) ==
  IF sorted = <<>> THEN <<r>>
  ELSE IF KeyLess(r, sorted[1]) THEN <<r>> \o sorted
  ELSE <<sorted[1]>> \o InsertSorted(Tail(sorted), r)

RECURSIVE SortResults(_, _)
SortResults(results, n) ==
  IF n = 0 THEN <<>>
  ELSE InsertSorted(SortResults(results, n - 1), results[n])

\* results[:limit] is taken before the sort
search_items_truncate_first(index_data, query, limit, base_url) ==
  LET docs == FlattenDocs(index_data.items)
      results == Collect(docs, 1, query, base_url, <<>>, {})
      kept == SubSeq(results, 1, Min(limit, Len(results)))
      sorted == SortResults(kept, Len(kept))
  IN [i \in 1..Len(sorted) |->
        [title |-> sorted[i].title, url |-> sorted[i].url, path |-> sorted[i].path]]

search_items(index_data, query, limit, base_url) ==
  LET docs == FlattenDocs(index_data.items)
      results == Collect(docs, 1, query, base_url, <<>>, {})
      sorted == SortResults(results, Len(results))
  IN [i \in 1..Min(limit, Len(sorted)) |->
        [title |-> sorted[i].title, url |-> sorted[i].url, path |-> sorted[i].path]]

(* The arguments search_items is run on *)

\* n - 1 times "a", then the word last
QueryOf(n, last) == JoinSpace([i \in 1..n |-> IF i = n THEN last ELSE <<97>>])

\* "a a ... a" and "a a ... B" of every length, the empty query, and "a  a"
Queries ==
  {QueryOf(n, last) : n \in 1..MaxQueryWords, last \in {<<97>>, <<66>>}}
    \cup {<<>>, <<97, 32, 32, 97>>}

\* titles: the query itself, "a"; URLs: "/x", "/x#f", "/y";
\* breadcrumbs: none, ["b", "a"]
DocsFor(q) ==
  [t : {q, <<97>>},
   u : {<<47, 120>>, <<47, 120, 35, 102>>, <<47, 121>>},
   b : {<<>>, <<(<<98>>), (<<97>>)>>}]

DocSeqs(q) == UNION {[1..n -> DocsFor(q)] : n \in 0..MaxDocs}

\* the JSON document is one index object, or a list of index objects: here
\* the first record in one object and the rest in another
IndexShapes(docs) ==
  {[list |-> FALSE, items |-> <<[documents |-> docs]>>],
   [list |-> TRUE,
    items |-> IF docs = <<>> THEN <<>>
              ELSE <<[documents |-> <<docs[1]>>], [documents |-> Tail(docs)]>>]}

\* the content base URL: "h"
BaseUrls == {<<104>>}

RankInit ==
  /\ cache = [u \in Urls |-> NoValue]
  /\ loading = [u \in Urls |-> NoTask]
  /\ tasks = [t \in TaskIds |-> NoTaskRec]
  /\ calls = [c \in Calls |-> IdleCall]
  /\ page = NoPage
  /\ \E q \in Queries : \E docs \in DocSeqs(q) : \E ix \in IndexShapes(docs) :
        rank = [pc |-> "ready", index |-> ix, query |-> q, limit |-> 0,
                base |-> <<>>, out |-> <<>>]

RunSearch(limit, base_url) ==
  /\ rank.pc = "ready"
  /\ rank' = [rank EXCEPT !.pc = "done", !.limit = limit, !.base = base_url,
                          !.out = search_items(rank.index, rank.query, limit, base_url)]
  /\ UNCHANGED <<cache, loading, tasks, calls, page>>

RankNext == \E limit \in 0..MaxLimit, base_url \in BaseUrls : RunSearch(limit, base_url)

RankSpec == RankInit /\ [][RankNext]_vars

---------------------------------------------------------------------------
(* get_page_tool, from `base_location = location.split("#")[0]` on: the     *)
(* page lookup in the loaded index and the fetch of the page content        *)

\* s.startswith(p)
StartsWith(s, p) == Len(s) >= Len(p) /\ SubSeq(s, 1, Len(p)) = p

\* the longest prefix of s with no character of stops
RECURSIVE UpTo(_, _)
UpTo(s, stops) ==
  IF s = <<>> \/ s[1] \in stops THEN <<>> ELSE <<s[1]>> \o UpTo(Tail(s), stops)

\* s from its first character of stops on
RECURSIVE FromFirst(_, _)
FromFirst(s, stops) ==
  IF s = <<>> \/ s[1] \in stops THEN s ELSE FromFirst(Tail(s), stops)

\* urllib.parse._splitparams(url)[0]: the path without the parameters of
\* its last segment
SplitParams(url) ==
  LET slashes == {i \in 1..Len(url) : url[i] = 47}
      last == IF slashes = {} THEN 1
              ELSE CHOOSE i \in slashes : \A j \in slashes : j <= i
      semis == {i \in last..Len(url) : url[i] = 59}
  IN IF semis = {} THEN url
     ELSE SubSeq(url, 1, (CHOOSE i \in semis : \A j \in semis : i <= j) - 1)

\* urlparse(url).path of an http:// or https:// URL: the scheme up to ":",
\* the netloc after "//" up to the first of "/", "?", "#", then the
\* fragment, the query and the parameters are split off
UrlPath(url) ==
  LET rest == Tail(FromFirst(url, {58}))
      after == IF StartsWith(rest, <<47, 47>>)
                 THEN FromFirst(SubSeq(rest, 3, Len(rest)), {47, 63, 35})
                 ELSE rest
  IN SplitParams(UpTo(UpTo(after, {35}), {63}))

\* "http://" and "https://"
HttpPrefix == <<104, 116, 116, 112, 58, 47, 47>>
HttpsPrefix == <<104, 116, 116, 112, 115, 58, 47, 47>>

\* base_location: location.split("#")[0], then urlparse(...).path if it
\* starts with "http://" or "https://"
BaseLocation(location) ==
  LET base_location == BeforeHash(location)
  IN IF StartsWith(base_location, HttpPrefix) \/ StartsWith(base_location, HttpsPrefix)
       THEN UrlPath(base_location)
       ELSE base_location

\* the record is taken when its path begins with the location
SamePathPrefix(doc_path, base_location) == StartsWith(doc_path, base_location)

\* `doc_path == base_location`
SamePath(doc_path, base_location) == doc_path = base_location

\* the two loops with their breaks: the position in traversal order of the
\* first record with d.get("u", "").split("#")[0] == base_location, 0 if none
FindDoc(docs, base_location) ==
  LET hits == {k \in 1..Len(docs) : SamePath(BeforeHash(docs[k].u), base_location)}
  IN IF hits = {} THEN 0 ELSE CHOOSE k \in hits : \A j \in hits : k <= j

\* the payload names the path that was looked up
NotFoundPayloadStripped(location, base_location) ==
  [NoOut EXCEPT !.kind = "error", !.error = <<"Page not found: ", base_location>>]

\* {"error": f"Page not found: {location}"}
NotFoundPayload(location, base_location) ==
  [NoOut EXCEPT !.kind = "error", !.error = <<"Page not found: ", location>>]

\* {"title": doc.get("t"), "url": page_url, "path": doc.get("b", []),
\*  "content": markdown_text}
PagePayload(doc, page_url, content) ==
  [NoOut EXCEPT !.kind = "page", !.title = doc.t, !.url = page_url,
                !.path = doc.b, !.content = content]

\* response.raise_for_status() instead of the test of the status code: the
\* error leaves the handler
StatusRaises(doc, page_url, code) == [NoOut EXCEPT !.kind = "raise"]

\* the outcome of a response with status `code`: clean_html(response.text)
\* for 200, else f"# {doc.get('t')}\n\nContent not available (HTTP {code})"
StatusOutcome(doc, page_url, code) ==
  PagePayload(doc, page_url,
    IF code = 200
      THEN [NoContent EXCEPT !.kind = "markdown"]
      ELSE [NoContent EXCEPT !.kind = "unavailable", !.title = doc.t, !.code = code])

\* lines 255-285: the location is stripped, the record is looked up; without
\* a record the handler returns the not-found payload, with one it goes on
\* to fetch page_url = f"{b_url}{base_location}"
ResolvePage ==
  /\ page.pc = "ready"
  /\ LET base_location == BaseLocation(page.location)
         docs == FlattenDocs(page.index.items)
         k == FindDoc(docs, base_location)
     IN page' = IF k = 0
          THEN [page EXCEPT !.pc = "done", !.base_location = base_location,
                            !.out = NotFoundPayload(page.location, base_location)]
          ELSE [page EXCEPT !.pc = "fetch", !.base_location = base_location,
                            !.found = TRUE, !.doc = docs[k]]
  /\ UNCHANGED <<cache, loading, tasks, calls, rank>>

\* client.get(page_url) answers with status `code`
PageResponse(code) ==
  /\ page.pc = "fetch"
  /\ page' = [page EXCEPT !.pc = "done", !.gets = @ + 1,
                !.out = StatusOutcome(page.doc, page.b_url \o page.base_location, code)]
  /\ UNCHANGED <<cache, loading, tasks, calls, rank>>

\* client.get or clean_html raises e: `except Exception as e:`
\* f"# {doc.get('t')}\n\nError fetching content: {str(e)}"
PageError(e) ==
  /\ page.pc = "fetch"
  /\ page' = [page EXCEPT !.pc = "done", !.gets = @ + 1,
                !.out = PagePayload(page.doc, page.b_url \o page.base_location,
                          [NoContent EXCEPT !.kind = "error", !.title = page.doc.t,
                                            !.err = e])]
  /\ UNCHANGED <<cache, loading, tasks, calls, rank>>

(* The arguments get_page_tool is run on *)

\* status codes of the page response, and the errors of the page fetch
StatusCodes == {200, 404, 500}
FetchErrors == {"ConnectError", "ReadTimeout"}

\* titles "a", "b"; URLs "/x", "/x#f", "/xy", "/d/x"; no breadcrumb
PageDocs ==
  [t : {<<97>>, <<98>>},
   u : {<<47, 120>>, <<47, 120, 35, 102>>, <<47, 120, 121>>,
        <<47, 100, 47, 120>>},
   b : {<<>>}]

PageDocSeqs == UNION {[1..n -> PageDocs] : n \in 0..MaxDocs}

\* the content base URL b_url: "http://h" and "http://h/d"
ContentBases == {HttpPrefix \o <<104>>, HttpPrefix \o <<104, 47, 100>>}

\* locations: a path, or "http://h", "https://h" and a path; the paths "/x",
\* "/xy", "/d/x"; with or without the query "?q"; with or without the
\* fragment "#f"
Locs ==
  [site : {<<>>, HttpPrefix \o <<104>>, HttpsPrefix \o <<104>>},
   path : {<<47, 120>>, <<47, 120, 121>>, <<47, 100, 47, 120>>},
   query : {<<>>, <<63, 113>>},
   frag : {<<>>, <<35, 102>>}]

LocationOf(loc) == loc.site \o loc.path \o loc.query \o loc.frag

\* the index is loaded (it is in _cache) and get_page_tool has it in
\* index_data
PageInit ==
  /\ cache = [u \in Urls |-> IF u = 1 THEN 1 ELSE NoValue]
  /\ loading = [u \in Urls |-> NoTask]
  /\ tasks = [t \in TaskIds |-> NoTaskRec]
  /\ calls = [c \in Calls |-> IdleCall]
  /\ rank = NoRank
  /\ \E docs \in PageDocSeqs : \E ix \in IndexShapes(docs) :
     \E b \in ContentBases : \E loc \in Locs :
        page = [NoPage EXCEPT !.pc = "ready", !.index = ix, !.b_url = b,
                              !.loc = loc, !.location = LocationOf(loc)]

PageNext ==
  \/ ResolvePage
  \/ \E code \in StatusCodes : PageResponse(code)
  \/ \E e \in FetchErrors : PageError(e)

PageSpec == PageInit /\ [][PageNext]_vars

---------------------------------------------------------------------------
(* Claims about the load coordinator *)

\* tasks of index URL u that have started and not resolved
InFlight(u) == {t \in TaskIds : tasks[t].url = u /\ tasks[t].st \in {"created", "fetching"}}

\* C1: in every reachable state there is at most one started-but-unresolved
\* index fetch per index URL.
C1_AtMostOneInFlight == \A u \in Urls : Cardinality(InFlight(u)) <= 1

\* C2: as long as no fetch of an index URL has failed, exactly one GET is
\* ever issued for it however many callers ask at once, and every caller
\* that obtains an index obtains the value held in the cache.
C2_OneFetchOneValue ==
  /\ \A u \in Urls :
        (\A t \in TaskIds : tasks[t].url = u => tasks[t].st # "failed")
           => FetchCount(u) <= 1
  /\ \A c \in Calls :
        (calls[c].pc = "done" /\ calls[c].res = "results")
           => calls[c].idx = cache[calls[c].url]

\* C3: after an index fetch has failed its registration is gone, so no call
\* begins to wait on the failed operation: it starts a fresh fetch.
C3_NoWaitOnFailedFetch ==
  [][\A c \in Calls :
       (calls[c].pc = "idle" /\ calls'[c].pc = "wait")
          => tasks'[calls'[c].task].st # "failed"]_vars

\* C4: a waiter's timeout never cancels or alters the fetch: a started task
\* changes only in a step of its own (no call moves in that step), and only
\* to issue its GET, to succeed or to fail.
C4_TimeoutLeavesFetchAlone ==
  [][\A t \in TaskIds :
       (tasks[t].st \in {"created", "fetching"} /\ tasks'[t] # tasks[t])
          => /\ calls' = calls
             /\ tasks'[t].st \in {"fetching", "succeeded", "failed"}]_vars

\* a fetch resolved, one way or the other, after a waiter had timed out on it
C4_Witness ==
  /\ \E c \in Calls : /\ calls[c].pc = "done" /\ calls[c].res = "loading"
                       /\ tasks[calls[c].task].st = "succeeded"
  /\ \E c \in Calls : /\ calls[c].pc = "done" /\ calls[c].res = "loading"
                       /\ tasks[calls[c].task].st = "failed"

\* task t fetched its document in the background: it succeeded by its own
\* GET and every call that waited on it got the loading marker
BackgroundSuccess(t) ==
  /\ tasks[t].st = "succeeded" /\ tasks[t].http
  /\ \E c \in Calls : calls[c].task = t
  /\ \A c \in Calls : calls[c].task = t
        => (calls[c].pc = "done" /\ calls[c].res = "loading")

\* C5: once a fetch has succeeded in the background the cache holds the
\* fetched value from then on, and a call that finds it returns results from
\* it, without waiting and never a loading marker.
C5_BackgroundFetchServesLaterCalls ==
  \A t \in TaskIds : BackgroundSuccess(t) =>
     /\ cache[tasks[t].url] = tasks[t].val
     /\ \A c \in Calls :
           (calls[c].url = tasks[t].url /\ calls[c].path = "cached")
              => /\ calls[c].task = NoTask
                 /\ calls[c].res \in {"none", "results"}
                 /\ calls[c].res = "results" => calls[c].idx = tasks[t].val

\* C6: a cached value is never replaced by another one and never removed.
C6_CacheIsImmutable ==
  [][\A u \in Urls : cache[u] # NoValue => cache'[u] = cache[u]]_vars

\* C7: a call that finds its index URL cached starts no fetch, registers
\* nothing, does not wait, and returns results computed from the cached value.
C7_CachedCallOnlyReads ==
  /\ [][\A c \in Calls :
          (calls[c].pc = "idle" /\ calls'[c].pc # "idle"
             /\ cache[calls'[c].url] # NoValue)
            => /\ calls'[c].path = "cached"
               /\ tasks' = tasks /\ loading' = loading /\ cache' = cache
               /\ calls'[c].pc = "done"
                     => calls'[c].idx = cache[calls'[c].url]]_vars
  /\ [][\A c \in Calls :
          (calls[c].path = "cached" /\ calls'[c] # calls[c])
            => /\ tasks' = tasks /\ loading' = loading /\ cache' = cache
               /\ calls'[c].pc = "done"
               /\ calls'[c].idx = IF calls[c].pc = "cached"
                                    THEN cache[calls[c].url] ELSE calls[c].idx]_vars
  /\ [](\A c \in Calls : calls[c].path = "cached" =>
          /\ calls[c].task = NoTask /\ calls[c].waited = 0
          /\ calls[c].pc \in {"cached", "done"}
          /\ calls[c].pc = "done" =>
                (calls[c].res = "results" /\ calls[c].idx # NoValue))

\* a call found the cache filled by a fetch its starter had timed out on,
\* and returned results from the cached value
C7_Witness ==
  \E c, d \in Calls :
     /\ calls[c].pc = "done" /\ calls[c].path = "cached"
     /\ calls[c].res = "results" /\ calls[c].task = NoTask
     /\ calls[c].idx = cache[calls[c].url]
     /\ calls[d].pc = "done" /\ calls[d].res = "loading"
     /\ calls[d].url = calls[c].url

\* C8: a failing fetch stores nothing in the cache, and a caller waiting on
\* it gets a hard failure: its only step is to end with the failure, and no
\* time passes before it does.
C8_FailureReachesEveryWaiter ==
  /\ [][\A t \in TaskIds :
          (tasks[t].st # "failed" /\ tasks'[t].st = "failed")
            => (cache' = cache /\ tasks'[t].val = NoValue)]_vars
  /\ [][\A c \in Calls :
          (calls[c].pc = "wait" /\ tasks[calls[c].task].st = "failed")
            => \/ calls'[c] = calls[c]
               \/ /\ calls'[c].pc = "done" /\ calls'[c].res = "failure"
                  /\ calls'[c].idx = NoValue /\ cache' = cache]_vars

\* two callers were waiting on the same fetch, it failed, both got the
\* failure and the cache is empty
C8_Witness ==
  \E c, d \in Calls :
     /\ c # d /\ calls[c].task = calls[d].task /\ calls[c].task # NoTask
     /\ calls[c].pc = "done" /\ calls[c].res = "failure"
     /\ calls[d].pc = "done" /\ calls[d].res = "failure"
     /\ cache[calls[c].url] = NoValue

---------------------------------------------------------------------------
(* Claims about the load state of the sources *)

\* the three load states of index URL u
Unloaded(u) == cache[u] = NoValue /\ loading[u] = NoTask
LoadingNow(u) ==
  /\ cache[u] = NoValue /\ loading[u] # NoTask
  /\ tasks[loading[u]].st \in {"created", "fetching"}
Loaded(u) == cache[u] # NoValue /\ loading[u] = NoTask

\* C17: every index URL is Unloaded, Loading (registered, its fetch not yet
\* resolved, nothing cached) or Loaded (cached, nothing registered); the
\* registry never keeps the entry of a cached URL or of a resolved fetch.
C17_ThreeLoadStates ==
  \A u \in Urls : Unloaded(u) \/ LoadingNow(u) \/ Loaded(u)

\* C18: a step that changes the cache entry or the registration of an index
\* URL is a step of a call or of a fetch on that URL and of nothing else; a
\* call waits only on a fetch of its own URL, and returns the loading marker
\* or the failure only because that fetch is still running or has failed.
C18_OtherSourcesUntouched ==
  /\ [][\A u \in Urls :
          (cache'[u] # cache[u] \/ loading'[u] # loading[u]) =>
             /\ \A c \in Calls : calls'[c] # calls[c] => calls'[c].url = u
             /\ \A t \in TaskIds : tasks'[t] # tasks[t] => tasks'[t].url = u
             /\ \/ \E c \in Calls : calls'[c] # calls[c]
                \/ \E t \in TaskIds : tasks'[t] # tasks[t]]_vars
  /\ [](\A c \in Calls : calls[c].task # NoTask =>
          tasks[calls[c].task].url = calls[c].url)
  /\ [][\A c \in Calls :
          (calls[c].pc # "done" /\ calls'[c].pc = "done") =>
             /\ calls'[c].res = "loading" =>
                   tasks[calls[c].task].st \in {"created", "fetching"}
             /\ calls'[c].res = "failure" =>
                   tasks[calls[c].task].st = "failed"]_vars

\* the load of one source failed or was too slow for its caller and is
\* still registered, while a call on another source waited for its index
\* and returned results
C18_Witness ==
  \E c, d \in Calls :
     /\ calls[c].url # calls[d].url
     /\ calls[c].pc = "done" /\ calls[c].res \in {"loading", "failure"}
     /\ loading[calls[c].url] = calls[c].task
     /\ cache[calls[c].url] = NoValue
     /\ calls[d].pc = "done" /\ calls[d].res = "results"
     /\ calls[d].path = "loaded"
     /\ cache[calls[d].url] = calls[d].idx
     /\ loading[calls[d].url] = NoTask

---------------------------------------------------------------------------
(* Claims about search_items *)

\* the returned record r matches the whole query string
ExactResult(r) == ExactMatch(Lower(r.title), Lower(JoinSpace(r.path)), Lower(rank.query))

\* C10: every returned record that matches the whole lowercase query string
\* in its title or breadcrumb comes before every returned record that
\* matches only through single query words.
C10_ExactPhraseFirst ==
  rank.pc = "done" =>
    \A i, j \in 1..Len(rank.out) :
       (i < j /\ ExactResult(rank.out[j])) => ExactResult(rank.out[i])

\* the document records of the searched index, in traversal order
RankDocs == FlattenDocs(rank.index.items)

\* record k matches the query (the loop body does not `continue`)
Matches(k) == ScoreOf(RankDocs[k], rank.query) # 0

\* record k is the first matching record of its base path
FirstMatch(k) ==
  /\ Matches(k)
  /\ \A j \in 1..(k - 1) :
        BeforeHash(RankDocs[j].u) = BeforeHash(RankDocs[k].u) => ~Matches(j)

\* the result search_items builds from record k
ResultOf(k) ==
  [title |-> RankDocs[k].t, url |-> rank.base \o BeforeHash(RankDocs[k].u),
   path |-> RankDocs[k].b]

\* C11: the output holds at most one result per base path, and each result
\* is built from the first matching record of its base path in traversal
\* order, whatever the scores of the later records of that base path.
C11_FirstSeenPerBasePath ==
  rank.pc = "done" =>
    /\ \A i \in 1..Len(rank.out) :
          \E k \in 1..Len(RankDocs) : rank.out[i] = ResultOf(k) /\ FirstMatch(k)
    /\ \A i, j \in 1..Len(rank.out) : i # j => rank.out[i].url # rank.out[j].url

\* two matching records share a base path, the later one scores higher and
\* has another title, and the output holds the earlier one
C11_Witness ==
  /\ rank.pc = "done"
  /\ \E j, k \in 1..Len(RankDocs) :
        /\ j < k /\ FirstMatch(j)
        /\ BeforeHash(RankDocs[j].u) = BeforeHash(RankDocs[k].u)
        /\ ScoreOf(RankDocs[j], rank.query) < ScoreOf(RankDocs[k], rank.query)
        /\ RankDocs[j].t # RankDocs[k].t
        /\ \E i \in 1..Len(rank.out) : rank.out[i] = ResultOf(j)

\* the score of a returned record, from its title and breadcrumb
OutScore(r) == ScoreOf([t |-> r.title, u |-> <<>>, b |-> r.path], rank.query)

\* the position in traversal order of the record a result was built from
Origin(r) == CHOOSE k \in 1..Len(RankDocs) : FirstMatch(k) /\ ResultOf(k) = r

\* C12: the output is in descending score; results of equal score are in
\* ascending order of their original-case titles, code point by code point;
\* results of equal score and equal title are in traversal order.
C12_SortedByScoreThenTitle ==
  rank.pc = "done" =>
    LET score == [i \in 1..Len(rank.out) |-> OutScore(rank.out[i])]
    IN \A i, j \in 1..Len(rank.out) : i < j =>
          LET x == rank.out[i]
              y == rank.out[j]
          IN \/ score[i] > score[j]
             \/ /\ score[i] = score[j]
                /\ \/ StrLess(x.title, y.title)
                   \/ x.title = y.title /\ Origin(x) < Origin(y)

\* two results of equal score whose titles are in one order as they are and
\* in the other order in lowercase, returned against their traversal order
C12_Witness ==
  /\ rank.pc = "done" /\ Len(rank.out) = 2
  /\ OutScore(rank.out[1]) = OutScore(rank.out[2])
  /\ StrLess(rank.out[1].title, rank.out[2].title)
  /\ StrLess(Lower(rank.out[2].title), Lower(rank.out[1].title))
  /\ Origin(rank.out[2]) < Origin(rank.out[1])

\* the full ranking: every deduplicated match, sorted
FullRanking ==
  LET results == Collect(RankDocs, 1, rank.query, rank.base, <<>>, {})
      sorted == SortResults(results, Len(results))
  IN [i \in 1..Len(sorted) |->
        [title |-> sorted[i].title, url |-> sorted[i].url, path |-> sorted[i].path]]

\* out is the prefix of full of length min(limit, Len(full))
IsPrefixOfLength(out, full, limit) ==
  /\ Len(out) = Min(limit, Len(full))
  /\ \A i \in 1..Len(out) : out[i] = full[i]

\* C13: for a limit >= 0 the output has min(limit, number of deduplicated
\* matches) results and is the prefix of that length of the full ranking.
C13_LimitTakesPrefix ==
  rank.pc = "done" => IsPrefixOfLength(rank.out, FullRanking, rank.limit)

\* the limit cuts a ranking whose first result is not the first match in
\* traversal order
C13_Witness ==
  /\ rank.pc = "done"
  /\ rank.limit >= 1 /\ rank.limit < Len(FullRanking)
  /\ Len(rank.out) = rank.limit
  /\ Origin(rank.out[1]) > 1

---------------------------------------------------------------------------
(* Claims about the page lookup of get_page_tool *)

\* the document records of the index the page is looked up in
PageIndexDocs == FlattenDocs(page.index.items)

\* the string the claim says is matched: the location without its fragment,
\* and of a URL with scheme and host only its path
MatchedString == IF page.loc.site = <<>> THEN page.loc.path \o page.loc.query
                 ELSE page.loc.path

\* the records whose base path is exactly the matched string
ExactHits ==
  {k \in 1..Len(PageIndexDocs) : BeforeHash(PageIndexDocs[k].u) = MatchedString}

\* the lookup has been made
Resolved == page.pc \in {"fetch", "done"}

\* C14: the lookup uses the location without its fragment and, of an http or
\* https URL, only the path; it takes the first record in traversal order
\* whose base path equals that string, and reports not-found exactly when no
\* record's base path equals it.
C14_ExactMatchOnStrippedPath ==
  Resolved =>
    /\ page.base_location = MatchedString
    /\ ExactHits = {} <=> (page.pc = "done" /\ page.out.kind = "error")
    /\ ExactHits = {} <=> ~page.found
    /\ ExactHits # {} =>
          \E k \in ExactHits : /\ \A j \in ExactHits : k <= j
                               /\ page.doc = PageIndexDocs[k]

\* a full URL with a fragment resolved to the second record, whose URL has a
\* fragment too, past a first record whose base path only begins with the path
C14_Witness ==
  /\ Resolved /\ page.found
  /\ page.loc.site # <<>> /\ page.loc.frag # <<>>
  /\ Len(PageIndexDocs) = 2
  /\ page.doc = PageIndexDocs[2] /\ page.doc # PageIndexDocs[1]
  /\ page.doc.u # BeforeHash(page.doc.u)
  /\ StartsWith(BeforeHash(PageIndexDocs[1].u), page.base_location)

\* C15: once a record matches, the handler ends with a payload whatever the
\* page fetch does: the record's title and breadcrumb and the content URL
\* b_url + path, and for a status other than 200 or an error a placeholder
\* content with the title and the status code or the error description.
C15_DegradedPageStillReturned ==
  /\ [](page.pc = "done" /\ page.found =>
          /\ page.gets = 1
          /\ page.out.kind = "page"
          /\ page.out.title = page.doc.t
          /\ page.out.path = page.doc.b
          /\ page.out.url = page.b_url \o MatchedString
          /\ page.out.content.kind \in {"markdown", "unavailable", "error"}
          /\ page.out.content.kind = "unavailable" =>
                /\ page.out.content.title = page.doc.t
                /\ page.out.content.code \in StatusCodes \ {200}
          /\ page.out.content.kind = "error" =>
                /\ page.out.content.title = page.doc.t
                /\ page.out.content.err \in FetchErrors)
  /\ [][page.pc = "fetch" => page'.pc = "done"]_vars

\* the page answered 404 and the payload carries the record's title, the
\* content URL and the placeholder with the status code
C15_Witness ==
  /\ page.pc = "done" /\ page.found
  /\ page.out.kind = "page" /\ page.out.title = page.doc.t
  /\ page.out.content.kind = "unavailable" /\ page.out.content.code = 404

\* C16: without a matching record the handler ends at once with the payload
\* {error: "Page not found: <location>"} carrying the location as it was
\* given, no page GET is issued, and _cache and _loading are left as they are.
C16_NotFoundPayload ==
  /\ [](Resolved /\ ~page.found =>
          /\ page.pc = "done"
          /\ page.gets = 0
          /\ page.out = [NoOut EXCEPT !.kind = "error",
                           !.error = <<"Page not found: ", LocationOf(page.loc)>>])
  /\ [][page.pc = "ready" /\ ~page'.found =>
          cache' = cache /\ loading' = loading]_vars
  /\ [][page.pc = "done" => page' = page]_vars

\* a full URL with a fragment was not found in an index that has records
C16_Witness ==
  /\ page.pc = "done" /\ ~page.found
  /\ page.loc.site # <<>> /\ page.loc.frag # <<>>
  /\ page.base_location # page.location
  /\ PageIndexDocs # <<>>
  /\ cache[1] # NoValue

\* the URLs search_items returns for the index and content base URL of the
\* page lookup, for the queries "a" and "b"
SearchUrls ==
  {r.url : r \in UNION {
     {search_items(page.index, q, MaxDocs, page.b_url)[i] :
        i \in 1..Len(search_items(page.index, q, MaxDocs, page.b_url))} :
     q \in {<<97>>, <<98>>}}}

\* C19: a URL returned by search_items, given as the location, is found, and
\* the record found has the base path of that URL.
C19_SearchUrlRoundTrip ==
  (Resolved /\ page.location \in SearchUrls) =>
     /\ page.found
     /\ page.b_url \o BeforeHash(page.doc.u) = page.location

====
